---- MODULE Spec2Model ----
(***************************************************************************)
(* HelloWorldAgentExecutor (a2a test server, agent_executor.py).           *)
(*                                                                         *)
(* The executor has two coroutines, execute and cancel.  Every invocation  *)
(* is a record in `calls`; its `pc` is the await at which the coroutine    *)
(* stands.  The host's event queue is `sink`; `emitter` records, for every *)
(* sink entry, the invocation that enqueued it (history variable).         *)
(*                                                                         *)
(* Pydantic fields left at their default None are absent from the records  *)
(* (TaskStatus.message of a Task, TaskStatus.timestamp of an update); an   *)
(* id that is None is the string NoneId.  The random message_id of         *)
(* new_agent_text_message is not modelled.                                 *)
(***************************************************************************)
EXTENDS Integers, Sequences, FiniteSets, TLC

VARIABLES calls, sink, emitter

vars == <<calls, sink, emitter>>

(* ---------------------------- bounds ----------------------------------- *)

MaxCalls == 2
MaxTask == 2
MaxCtx == 2
MaxTime == 1

TaskIds == {"task-" \o ToString(n) : n \in 1..MaxTask}
ContextIds == {"ctx-" \o ToString(n) : n \in 1..MaxCtx}
Timestamps == 0..MaxTime

UserInputs ==
    {"hello world", "do task", "do cancelable task", "do long-running task",
     "", "xyz", "Do Task", "do task "}

NoneId == "None"

(* ------------------------- library objects ----------------------------- *)

(* The request context the host hands to execute: the inbound message and  *)
(* the task and context the host assigned to the request, which are the    *)
(* ids the message carries.  The context handed to cancel has the ids only.*)
RequestContext(text, tid, cid) ==
    [task_id |-> tid, context_id |-> cid,
     message |-> [role |-> "user", text |-> text,
                  task_id |-> tid, context_id |-> cid]]

CancelContext(tid, cid) == [task_id |-> tid, context_id |-> cid]

get_user_input(context) == context.message.text

new_agent_text_message(text, context_id, task_id) ==
    [kind |-> "message", role |-> "agent", text |-> text,
     context_id |-> context_id, task_id |-> task_id]

(* datetime.now(timezone.utc).isoformat(): the clock reading `now` (seconds  *)
(* after an epoch) formatted as an ISO 8601 UTC string.                    *)
get_current_timestamp(now) ==
    "2025-01-01T00:00:0" \o ToString(now) \o "+00:00"

(* --------------------------- the behaviours ---------------------------- *)

(* The update a faulty variant of a behaviour would build. *)
StatusUpdate(task_id, context_id, state, text, final) ==
    [kind |-> "status-update",
     context_id |-> context_id,
     task_id |-> task_id,
     status |-> [state |-> state,
                 message |-> new_agent_text_message(text, context_id,
                                                    task_id)],
     final |-> final]

do_task_Task(message, now) ==
    [kind |-> "task",
     id |-> message.task_id,
     context_id |-> message.context_id,
     status |-> [state |-> "submitted",
                 timestamp |-> get_current_timestamp(now)],
     history |-> <<message>>]

(* Faulty variant: the inbound message is not put into the history. *)
do_cancelable_task_Task_NoHistory(message, now) ==
    [kind |-> "task",
     id |-> message.task_id,
     context_id |-> message.context_id,
     status |-> [state |-> "submitted",
                 timestamp |-> get_current_timestamp(now)],
     history |-> << >>]

do_cancelable_task_Task(message, now) ==
    [kind |-> "task",
     id |-> message.task_id,
     context_id |-> message.context_id,
     status |-> [state |-> "submitted",
                 timestamp |-> get_current_timestamp(now)],
     history |-> <<message>>]

do_long_running_task_Task(message, now) ==
    [kind |-> "task",
     id |-> message.task_id,
     context_id |-> message.context_id,
     status |-> [state |-> "submitted",
                 timestamp |-> get_current_timestamp(now)],
     history |-> <<message>>]

(* Faulty variant: the reply is built without the inbound ids. *)
say_hello_event_NoIds(context) ==
    new_agent_text_message("Hello World", NoneId, NoneId)

say_hello_event(context) ==
    new_agent_text_message("Hello World",
                           context.message.context_id,
                           context.message.task_id)

(* Faulty variants of the event list of do_task: the completed update not  *)
(* marked final; the completed update put before the working update; the   *)
(* working update put before the Task; the working update marked final.    *)
do_task_events_NoFinal(task) ==
    << task,
       StatusUpdate(task.id, task.context_id, "working",
                    "Working on task", FALSE),
       StatusUpdate(task.id, task.context_id, "completed",
                    "Task completed", FALSE) >>

do_task_events_FinalFirst(task) ==
    << task,
       StatusUpdate(task.id, task.context_id, "completed",
                    "Task completed", TRUE),
       StatusUpdate(task.id, task.context_id, "working",
                    "Working on task", FALSE) >>

do_task_events_UpdateFirst(task) ==
    << StatusUpdate(task.id, task.context_id, "working",
                    "Working on task", FALSE),
       task,
       StatusUpdate(task.id, task.context_id, "completed",
                    "Task completed", TRUE) >>

do_task_events_TwoFinals(task) ==
    << task,
       StatusUpdate(task.id, task.context_id, "working",
                    "Working on task", TRUE),
       StatusUpdate(task.id, task.context_id, "completed",
                    "Task completed", TRUE) >>

do_task_events(task) ==
    << task,
       [kind |-> "status-update",
        context_id |-> task.context_id,
        task_id |-> task.id,
        status |-> [state |-> "working",
                    message |-> new_agent_text_message("Working on task",
                                    task.context_id, task.id)],
        final |-> FALSE],
       [kind |-> "status-update",
        context_id |-> task.context_id,
        task_id |-> task.id,
        status |-> [state |-> "completed",
                    message |-> new_agent_text_message("Task completed",
                                    task.context_id, task.id)],
        final |-> TRUE] >>

StillWorkingRange == 4

(* Faulty variant: the text counts from 1. *)
still_working_event_OffByOne(task, i) ==
    StatusUpdate(task.id, task.context_id, "working",
                 "Still working " \o ToString(i + 1), FALSE)

still_working_event(task, i) ==
    [kind |-> "status-update",
     task_id |-> task.id,
     context_id |-> task.context_id,
     status |-> [state |-> "working",
                 message |-> new_agent_text_message(
                                 "Still working " \o ToString(i),
                                 task.context_id, task.id)],
     final |-> FALSE]

unknown_event == new_agent_text_message("Sorry, I don't understand you",
                                        NoneId, NoneId)

(* Faulty variant: the nested message is built without the ids. *)
cancel_event_MessageNoIds(context) ==
    [kind |-> "status-update",
     context_id |-> context.context_id,
     task_id |-> context.task_id,
     status |-> [state |-> "canceled",
                 message |-> new_agent_text_message("Task canceled",
                                                    NoneId, NoneId)],
     final |-> TRUE]

cancel_event(context) ==
    [kind |-> "status-update",
     context_id |-> context.context_id,
     task_id |-> context.task_id,
     status |-> [state |-> "canceled",
                 message |-> new_agent_text_message("Task canceled",
                                 context.context_id, context.task_id)],
     final |-> TRUE]

(* Faulty variant: "do task" is matched without regard to case and to      *)
(* trailing blanks.                                                        *)
Dispatch_Lenient(user_input) ==
    IF user_input = "hello world" THEN "say_hello"
    ELSE IF user_input \in {"do task", "Do Task", "do task "} THEN "do_task"
    ELSE IF user_input = "do cancelable task" THEN "do_cancelable_task"
    ELSE IF user_input = "do long-running task" THEN "do_long_running_task"
    ELSE "unknown"

Dispatch(user_input) ==
    IF user_input = "hello world" THEN "say_hello"
    ELSE IF user_input = "do task" THEN "do_task"
    ELSE IF user_input = "do cancelable task" THEN "do_cancelable_task"
    ELSE IF user_input = "do long-running task" THEN "do_long_running_task"
    ELSE "unknown"

(* ------------------------------ state ---------------------------------- *)

Init ==
    /\ calls = << >>
    /\ sink = << >>
    /\ emitter = << >>

Enqueue(n, event) ==
    /\ sink' = Append(sink, event)
    /\ emitter' = Append(emitter, n)

(* execute is called: lines 161-174 run up to the first await of the       *)
(* selected behaviour; the behaviour's locals are built.                   *)
Execute(text, tid, cid, now) ==
    /\ Len(calls) < MaxCalls
    /\ LET context == RequestContext(text, tid, cid)
           branch == Dispatch(get_user_input(context))
           call ==
             CASE branch = "say_hello" ->
                    [op |-> "execute", context |-> context, branch |-> branch,
                     pc |-> "enqueue"]
               [] branch = "do_task" ->
                    [op |-> "execute", context |-> context, branch |-> branch,
                     pc |-> "enqueue",
                     events |->
                         do_task_events(do_task_Task(context.message, now)),
                     k |-> 1]
               [] branch = "do_cancelable_task" ->
                    [op |-> "execute", context |-> context, branch |-> branch,
                     pc |-> "enqueue",
                     task |-> do_cancelable_task_Task(context.message, now)]
               [] branch = "do_long_running_task" ->
                    [op |-> "execute", context |-> context, branch |-> branch,
                     pc |-> "enqueue_task",
                     task |-> do_long_running_task_Task(context.message,
                                                        now),
                     i |-> 0, slept |-> 0]
               [] OTHER ->
                    [op |-> "execute", context |-> context, branch |-> branch,
                     pc |-> "enqueue"]
       IN  calls' = Append(calls, call)
    /\ UNCHANGED <<sink, emitter>>

(* Faulty variant: the executor remembers that it has greeted before. *)
SayHello_Remembers(n) ==
    /\ calls[n].op = "execute" /\ calls[n].branch = "say_hello"
    /\ calls[n].pc = "enqueue"
    /\ Enqueue(n, IF \E j \in 1..Len(sink) : sink[j].kind = "message"
                  THEN new_agent_text_message("Hello again",
                           calls[n].context.message.context_id,
                           calls[n].context.message.task_id)
                  ELSE say_hello_event(calls[n].context))
    /\ calls' = [calls EXCEPT ![n].pc = "done"]

SayHello(n) ==
    /\ calls[n].op = "execute" /\ calls[n].branch = "say_hello"
    /\ calls[n].pc = "enqueue"
    /\ Enqueue(n, say_hello_event(calls[n].context))
    /\ calls' = [calls EXCEPT ![n].pc = "done"]

(* Faulty variant: the event list is one variable shared by all            *)
(* invocations, overwritten by the latest "do task" execute.               *)
DoTask_SharedEvents(n) ==
    /\ calls[n].op = "execute" /\ calls[n].branch = "do_task"
    /\ calls[n].pc = "enqueue"
    /\ LET latest == CHOOSE m \in 1..Len(calls) :
                        /\ calls[m].op = "execute"
                        /\ calls[m].branch = "do_task"
                        /\ \A m2 \in (m + 1)..Len(calls) :
                               ~(/\ calls[m2].op = "execute"
                                 /\ calls[m2].branch = "do_task")
       IN  Enqueue(n, calls[latest].events[calls[n].k])
    /\ calls' = [calls EXCEPT
                   ![n].k = @ + 1,
                   ![n].pc = IF calls[n].k = Len(calls[n].events)
                             THEN "done" ELSE "enqueue"]

(* Faulty variant: a failed enqueue is swallowed and the loop goes on to    *)
(* the event it was at.                                                    *)
DoTask_ContinuesAfterRaise(n) ==
    /\ calls[n].op = "execute" /\ calls[n].branch = "do_task"
    /\ calls[n].pc \in {"enqueue", "raised"}
    /\ Enqueue(n, calls[n].events[calls[n].k])
    /\ calls' = [calls EXCEPT
                   ![n].k = @ + 1,
                   ![n].pc = IF calls[n].k = Len(calls[n].events)
                             THEN "done" ELSE "enqueue"]

DoTask(n) ==
    /\ calls[n].op = "execute" /\ calls[n].branch = "do_task"
    /\ calls[n].pc = "enqueue"
    /\ Enqueue(n, calls[n].events[calls[n].k])
    /\ calls' = [calls EXCEPT
                   ![n].k = @ + 1,
                   ![n].pc = IF calls[n].k = Len(calls[n].events)
                             THEN "done" ELSE "enqueue"]

DoCancelableTask(n) ==
    /\ calls[n].op = "execute" /\ calls[n].branch = "do_cancelable_task"
    /\ calls[n].pc = "enqueue"
    /\ Enqueue(n, calls[n].task)
    /\ calls' = [calls EXCEPT ![n].pc = "done"]

LongEnqueueTask(n) ==
    /\ calls[n].op = "execute" /\ calls[n].branch = "do_long_running_task"
    /\ calls[n].pc = "enqueue_task"
    /\ Enqueue(n, calls[n].task)
    /\ calls' = [calls EXCEPT
                   ![n].pc = IF calls[n].i < StillWorkingRange
                             THEN "sleep" ELSE "done"]

(* Faulty variant: the pause ends the loop when the task has been canceled *)
(* (a cancellation check the code does not have).                          *)
LongSleep_ChecksCancel(n) ==
    /\ calls[n].op = "execute" /\ calls[n].branch = "do_long_running_task"
    /\ calls[n].pc = "sleep"
    /\ calls' = [calls EXCEPT
                   ![n].pc = IF \E j \in 1..Len(sink) :
                                   /\ sink[j].kind = "status-update"
                                   /\ sink[j].status.state = "canceled"
                                   /\ sink[j].task_id = calls[n].task.id
                             THEN "done" ELSE "enqueue",
                   ![n].slept = @ + 1]
    /\ UNCHANGED <<sink, emitter>>

LongSleep(n) ==
    /\ calls[n].op = "execute" /\ calls[n].branch = "do_long_running_task"
    /\ calls[n].pc = "sleep"
    /\ calls' = [calls EXCEPT ![n].pc = "enqueue", ![n].slept = @ + 1]
    /\ UNCHANGED <<sink, emitter>>

(* Faulty variant: the loop runs once more than range(4). *)
LongEnqueueUpdate_OneMore(n) ==
    /\ calls[n].op = "execute" /\ calls[n].branch = "do_long_running_task"
    /\ calls[n].pc = "enqueue"
    /\ Enqueue(n, still_working_event(calls[n].task, calls[n].i))
    /\ calls' = [calls EXCEPT
                   ![n].i = @ + 1,
                   ![n].pc = IF calls[n].i + 1 <= StillWorkingRange
                             THEN "sleep" ELSE "done"]

LongEnqueueUpdate(n) ==
    /\ calls[n].op = "execute" /\ calls[n].branch = "do_long_running_task"
    /\ calls[n].pc = "enqueue"
    /\ Enqueue(n, still_working_event(calls[n].task, calls[n].i))
    /\ calls' = [calls EXCEPT
                   ![n].i = @ + 1,
                   ![n].pc = IF calls[n].i + 1 < StillWorkingRange
                             THEN "sleep" ELSE "done"]

Unknown(n) ==
    /\ calls[n].op = "execute" /\ calls[n].branch = "unknown"
    /\ calls[n].pc = "enqueue"
    /\ Enqueue(n, unknown_event)
    /\ calls' = [calls EXCEPT ![n].pc = "done"]

Cancel(tid, cid) ==
    /\ Len(calls) < MaxCalls
    /\ calls' = Append(calls, [op |-> "cancel",
                               context |-> CancelContext(tid, cid),
                               pc |-> "enqueue"])
    /\ UNCHANGED <<sink, emitter>>

(* Faulty variant: cancel also sets the status of the Task objects of its   *)
(* task that are in the sink.                                              *)
CancelEnqueue_MarksTask(n) ==
    /\ calls[n].op = "cancel"
    /\ calls[n].pc = "enqueue"
    /\ sink' = Append([j \in 1..Len(sink) |->
                          IF /\ sink[j].kind = "task"
                             /\ sink[j].id = calls[n].context.task_id
                          THEN [sink[j] EXCEPT !.status.state = "canceled"]
                          ELSE sink[j]],
                      cancel_event(calls[n].context))
    /\ emitter' = Append(emitter, n)
    /\ calls' = [calls EXCEPT ![n].pc = "done"]

(* Faulty variant: cancel looks the task up in the sink first. *)
CancelEnqueue_ChecksTask(n) ==
    /\ calls[n].op = "cancel"
    /\ calls[n].pc = "enqueue"
    /\ \E j \in 1..Len(sink) :
           sink[j].kind = "task" /\ sink[j].id = calls[n].context.task_id
    /\ Enqueue(n, cancel_event(calls[n].context))
    /\ calls' = [calls EXCEPT ![n].pc = "done"]

CancelEnqueue(n) ==
    /\ calls[n].op = "cancel"
    /\ calls[n].pc = "enqueue"
    /\ Enqueue(n, cancel_event(calls[n].context))
    /\ calls' = [calls EXCEPT ![n].pc = "done"]

(* enqueue_event raises: nothing is appended and the exception leaves the  *)
(* coroutine, which has no try/except.                                     *)
EnqueueRaises(n) ==
    /\ calls[n].pc \in {"enqueue", "enqueue_task"}
    /\ calls' = [calls EXCEPT ![n].pc = "raised"]
    /\ UNCHANGED <<sink, emitter>>

Next ==
    \/ \E text \in UserInputs, tid \in TaskIds, cid \in ContextIds,
          now \in Timestamps : Execute(text, tid, cid, now)
    \/ \E tid \in TaskIds, cid \in ContextIds : Cancel(tid, cid)
    \/ \E n \in 1..Len(calls) : SayHello(n)
    \/ \E n \in 1..Len(calls) : DoTask(n)
    \/ \E n \in 1..Len(calls) : DoCancelableTask(n)
    \/ \E n \in 1..Len(calls) : LongEnqueueTask(n)
    \/ \E n \in 1..Len(calls) : LongSleep(n)
    \/ \E n \in 1..Len(calls) : LongEnqueueUpdate(n)
    \/ \E n \in 1..Len(calls) : Unknown(n)
    \/ \E n \in 1..Len(calls) : CancelEnqueue(n)
    \/ \E n \in 1..Len(calls) : EnqueueRaises(n)

Spec == Init /\ [][Next]_vars

(* The sink accepts every event: no enqueue raises. *)
NextAccept ==
    \/ \E text \in UserInputs, tid \in TaskIds, cid \in ContextIds,
          now \in Timestamps : Execute(text, tid, cid, now)
    \/ \E tid \in TaskIds, cid \in ContextIds : Cancel(tid, cid)
    \/ \E n \in 1..Len(calls) : SayHello(n)
    \/ \E n \in 1..Len(calls) : DoTask(n)
    \/ \E n \in 1..Len(calls) : DoCancelableTask(n)
    \/ \E n \in 1..Len(calls) : LongEnqueueTask(n)
    \/ \E n \in 1..Len(calls) : LongSleep(n)
    \/ \E n \in 1..Len(calls) : LongEnqueueUpdate(n)
    \/ \E n \in 1..Len(calls) : Unknown(n)
    \/ \E n \in 1..Len(calls) : CancelEnqueue(n)

(* The enqueue invocation n is awaiting is carried out. *)
EnqueueAccepted(n) ==
    /\ n <= Len(calls)
    /\ \/ SayHello(n) \/ DoTask(n) \/ DoCancelableTask(n)
       \/ LongEnqueueTask(n) \/ LongEnqueueUpdate(n) \/ Unknown(n)
       \/ CancelEnqueue(n)

(* The pause invocation n is in elapses. *)
PauseElapses(n) == n <= Len(calls) /\ LongSleep(n)

(* The event loop resumes every coroutine whose await has completed: an    *)
(* accepted enqueue and an elapsed asyncio.sleep are eventually resumed.   *)
FairSpec ==
    /\ Init /\ [][NextAccept]_vars
    /\ \A n \in 1..MaxCalls :
          WF_vars(EnqueueAccepted(n)) /\ WF_vars(PauseElapses(n))

(* ------------------------- reading the sink ---------------------------- *)

RECURSIVE EmittedUpTo(_, _)
EmittedUpTo(n, j) ==
    IF j = 0 THEN << >>
    ELSE IF emitter[j] = n THEN Append(EmittedUpTo(n, j - 1), sink[j])
         ELSE EmittedUpTo(n, j - 1)

(* The events invocation n has enqueued so far, in sink order. *)
EventsOf(n) == EmittedUpTo(n, Len(sink))

CallIds == 1..Len(calls)

IsExecuteOf(n, text) ==
    /\ calls[n].op = "execute"
    /\ calls[n].context.message.text = text

Returned(n) == calls[n].pc = "done"

IsUpdate(e) == e.kind = "status-update"
IsTask(e) == e.kind = "task"
IsFinal(e) == IsUpdate(e) /\ e.final

IsPrefix(s, t) == Len(s) <= Len(t) /\ \A j \in 1..Len(s) : s[j] = t[j]

(* ------------------------------- C1 ------------------------------------ *)

DoTaskScript(m, ts) ==
    << [kind |-> "task", id |-> m.task_id, context_id |-> m.context_id,
        status |-> [state |-> "submitted", timestamp |-> ts],
        history |-> <<m>>],
       [kind |-> "status-update", task_id |-> m.task_id,
        context_id |-> m.context_id, final |-> FALSE,
        status |-> [state |-> "working",
                    message |-> [kind |-> "message", role |-> "agent",
                                 text |-> "Working on task",
                                 task_id |-> m.task_id,
                                 context_id |-> m.context_id]]],
       [kind |-> "status-update", task_id |-> m.task_id,
        context_id |-> m.context_id, final |-> TRUE,
        status |-> [state |-> "completed",
                    message |-> [kind |-> "message", role |-> "agent",
                                 text |-> "Task completed",
                                 task_id |-> m.task_id,
                                 context_id |-> m.context_id]]] >>

(* C1: when an execute invocation with user input "do task" has returned,  *)
(* the events it enqueued are exactly three, in this order: the Task       *)
(* (submitted, history = [inbound message]), the update (working,          *)
(* final=false, "Working on task"), the update (completed, final=true,     *)
(* "Task completed"), all with the inbound message's task_id and           *)
(* context_id; if it is the only invocation, they are the whole sink.      *)
C1_DoTaskThreeEvents ==
    \A n \in CallIds :
        (IsExecuteOf(n, "do task") /\ Returned(n)) =>
            LET ev == EventsOf(n)
                m == calls[n].context.message
            IN  /\ Len(ev) = 3
                /\ IsTask(ev[1])
                /\ ev = DoTaskScript(m, ev[1].status.timestamp)
                /\ (Len(calls) = 1 => sink = ev)

C1_Witness ==
    \E n \in CallIds :
        /\ IsExecuteOf(n, "do task") /\ Returned(n)
        /\ Len(calls) = 1 /\ Len(sink) = 3

(* ------------------------------- C2 ------------------------------------ *)

LongScript(m, ts) ==
    << [kind |-> "task", id |-> m.task_id, context_id |-> m.context_id,
        status |-> [state |-> "submitted", timestamp |-> ts],
        history |-> <<m>>] >>
    \o [j \in 1..4 |->
        [kind |-> "status-update", task_id |-> m.task_id,
         context_id |-> m.context_id, final |-> FALSE,
         status |-> [state |-> "working",
                     message |-> [kind |-> "message", role |-> "agent",
                                  text |-> <<"Still working 0",
                                             "Still working 1",
                                             "Still working 2",
                                             "Still working 3">>[j],
                                  task_id |-> m.task_id,
                                  context_id |-> m.context_id]]]]

(* C2: an execute invocation with user input "do long-running task" has,   *)
(* in every state, enqueued a prefix of: Task (submitted), then the four   *)
(* updates (working, final=false) "Still working 0".."Still working 3";    *)
(* the number of updates enqueued never exceeds the number of pauses that  *)
(* have elapsed and no pause elapses before the Task is enqueued; it has   *)
(* never enqueued a final=true event; once returned it has enqueued all    *)
(* five.                                                                   *)
C2_LongRunningFiveEvents ==
    \A n \in CallIds :
        IsExecuteOf(n, "do long-running task") =>
            LET ev == EventsOf(n)
                m == calls[n].context.message
            IN  /\ Len(ev) >= 1 =>
                     /\ IsTask(ev[1])
                     /\ IsPrefix(ev, LongScript(m, ev[1].status.timestamp))
                /\ Len(ev) <= 1 + calls[n].slept
                /\ calls[n].slept >= 1 => Len(ev) >= calls[n].slept
                /\ \A j \in 1..Len(ev) : ~IsFinal(ev[j])
                /\ Returned(n) => Len(ev) = 5 /\ calls[n].slept = 4

C2_Witness ==
    \E n \in CallIds :
        /\ IsExecuteOf(n, "do long-running task") /\ Returned(n)
        /\ Len(EventsOf(n)) = 5

(* ------------------------------- C3 ------------------------------------ *)

CancelScript(c) ==
    [kind |-> "status-update", task_id |-> c.task_id,
     context_id |-> c.context_id, final |-> TRUE,
     status |-> [state |-> "canceled",
                 message |-> [kind |-> "message", role |-> "agent",
                              text |-> "Task canceled",
                              task_id |-> c.task_id,
                              context_id |-> c.context_id]]]

(* C3: a cancel invocation can always take its one step, whatever the sink *)
(* holds (the step has no guard on the sink), and that step appends to the *)
(* sink exactly one event, the update (canceled, final=true, "Task         *)
(* canceled") with context.task_id and context.context_id, and returns.    *)
C3_CancelOneEvent ==
    \A n \in CallIds :
        calls[n].op = "cancel" =>
            /\ calls[n].pc = "enqueue" =>
                 /\ EventsOf(n) = << >>
                 /\ ENABLED (/\ CancelEnqueue(n)
                             /\ sink' = Append(sink,
                                               CancelScript(calls[n].context)))
            /\ Returned(n) => EventsOf(n) = <<CancelScript(calls[n].context)>>

(* A cancel has returned for a task whose "do task" execute had already    *)
(* enqueued its completed update.                                          *)
C3_Witness ==
    \E n \in CallIds, x \in CallIds :
        /\ calls[n].op = "cancel" /\ Returned(n)
        /\ IsExecuteOf(x, "do task") /\ Returned(x)
        /\ calls[x].context.task_id = calls[n].context.task_id
        /\ emitter[Len(sink)] = n

(* ------------------------------- C4 ------------------------------------ *)

Recognized ==
    {"hello world", "do task", "do cancelable task", "do long-running task"}

(* C4: an execute invocation whose user input is not one of the four       *)
(* literals never enqueues a Task or a status update, and once returned it *)
(* has enqueued exactly one event: the agent text message "Sorry, I don't  *)
(* understand you" whose context_id and task_id are None.                  *)
C4_UnrecognizedInput ==
    \A n \in CallIds :
        (calls[n].op = "execute"
            /\ calls[n].context.message.text \notin Recognized) =>
            LET ev == EventsOf(n)
            IN  /\ \A j \in 1..Len(ev) : ev[j].kind = "message"
                /\ Returned(n) =>
                     ev = << [kind |-> "message", role |-> "agent",
                              text |-> "Sorry, I don't understand you",
                              context_id |-> NoneId,
                              task_id |-> NoneId] >>

(* Returned invocations for the empty input and for a case variant and a   *)
(* whitespace variant of "do task".                                        *)
C4_Witness ==
    /\ Len(calls) = 2
    /\ \A n \in CallIds : calls[n].op = "execute" /\ Returned(n)
    /\ calls[1].context.message.text = "Do Task"
    /\ calls[2].context.message.text \in {"", "do task "}
    /\ Len(sink) = 2

(* ------------------------------- C5 ------------------------------------ *)

(* C5: an execute invocation with user input "hello world" never enqueues  *)
(* a Task or a status update, and once returned it has enqueued exactly    *)
(* one event: the agent text message "Hello World" with the inbound        *)
(* message's context_id and task_id.                                       *)
C5_HelloWorld ==
    \A n \in CallIds :
        IsExecuteOf(n, "hello world") =>
            LET ev == EventsOf(n)
                m == calls[n].context.message
            IN  /\ \A j \in 1..Len(ev) : ev[j].kind = "message"
                /\ Returned(n) =>
                     ev = << [kind |-> "message", role |-> "agent",
                              text |-> "Hello World",
                              context_id |-> m.context_id,
                              task_id |-> m.task_id] >>

C5_Witness ==
    \E n \in CallIds :
        /\ IsExecuteOf(n, "hello world") /\ Returned(n)
        /\ Len(EventsOf(n)) = 1

(* ------------------------------- C6 ------------------------------------ *)

(* C6: an execute invocation with user input "do cancelable task" never    *)
(* enqueues a status update, and once returned it has enqueued exactly one *)
(* event: a Task in state submitted, with the inbound message's ids, whose *)
(* history is the one inbound message.                                     *)
C6_CancelableTask ==
    \A n \in CallIds :
        IsExecuteOf(n, "do cancelable task") =>
            LET ev == EventsOf(n)
                m == calls[n].context.message
            IN  /\ \A j \in 1..Len(ev) : ~IsUpdate(ev[j])
                /\ Returned(n) =>
                     /\ Len(ev) = 1
                     /\ IsTask(ev[1])
                     /\ ev[1].status.state = "submitted"
                     /\ Len(ev[1].history) = 1
                     /\ ev[1].history[1] = m
                     /\ ev[1].id = m.task_id
                     /\ ev[1].context_id = m.context_id

C6_Witness ==
    \E n \in CallIds :
        /\ IsExecuteOf(n, "do cancelable task") /\ Returned(n)
        /\ Len(EventsOf(n)) = 1

(* ------------------------------- C7 ------------------------------------ *)

SinkIdx == 1..Len(sink)

(* C7 as stated: no status update for a task follows, in the sink, a       *)
(* final=true event for the same task.                                     *)
C7_NoUpdateAfterFinal ==
    \A j \in SinkIdx, k \in SinkIdx :
        (j < k /\ IsFinal(sink[j]) /\ IsUpdate(sink[k])) =>
            sink[k].task_id # sink[j].task_id

(* C7 amended: no status update for a task that follows a final=true event *)
(* for the same task was enqueued by the invocation that enqueued that     *)
(* final event; such an update comes from another invocation (a cancel, or *)
(* an execute that is still running or was started later).                 *)
C7_NoOwnUpdateAfterFinal ==
    \A j \in SinkIdx, k \in SinkIdx :
        (j < k /\ IsFinal(sink[j]) /\ IsUpdate(sink[k])
            /\ sink[k].task_id = sink[j].task_id) =>
            emitter[k] # emitter[j]

(* A "Still working" update follows the canceled event of the same task.   *)
C7_Witness ==
    \E j \in SinkIdx, k \in SinkIdx :
        /\ j < k
        /\ IsFinal(sink[j]) /\ sink[j].status.state = "canceled"
        /\ IsUpdate(sink[k]) /\ sink[k].status.state = "working"
        /\ sink[k].task_id = sink[j].task_id

(* ------------------------------- C8 ------------------------------------ *)

(* C8 as stated: every status update in the sink is preceded by a Task     *)
(* event with the same task id.                                            *)
C8_TaskPrecedesUpdate ==
    \A k \in SinkIdx :
        IsUpdate(sink[k]) =>
            \E j \in 1..(k - 1) :
                IsTask(sink[j]) /\ sink[j].id = sink[k].task_id

(* C8 amended: every status update enqueued by an execute invocation is    *)
(* preceded in the sink by the Task event, with the same task id, that the *)
(* same invocation enqueued; the update of a cancel need not be preceded   *)
(* by any Task event.                                                      *)
C8_TaskPrecedesExecuteUpdate ==
    \A k \in SinkIdx :
        (IsUpdate(sink[k]) /\ calls[emitter[k]].op = "execute") =>
            \E j \in 1..(k - 1) :
                /\ IsTask(sink[j]) /\ sink[j].id = sink[k].task_id
                /\ emitter[j] = emitter[k]

(* Both executes with updates have run to their end on one task id.        *)
C8_Witness ==
    /\ Len(calls) = 2
    /\ IsExecuteOf(1, "do long-running task") /\ Returned(1)
    /\ IsExecuteOf(2, "do task") /\ Returned(2)
    /\ calls[1].context.task_id = calls[2].context.task_id

(* ------------------------------- C9 ------------------------------------ *)

Finals(ev) == {j \in 1..Len(ev) : IsFinal(ev[j])}

(* C9: an invocation never has more than one final=true event among the    *)
(* events it enqueued, and a final=true event it enqueued is the last      *)
(* event it enqueued; once returned, a "do task" execute and a cancel have *)
(* enqueued exactly one, every other execute none.                         *)
C9_AtMostOneFinal ==
    \A n \in CallIds :
        LET ev == EventsOf(n)
        IN  /\ Cardinality(Finals(ev)) <= 1
            /\ \A j \in Finals(ev) : j = Len(ev)
            /\ Returned(n) =>
                 Cardinality(Finals(ev)) =
                     IF calls[n].op = "cancel" THEN 1
                     ELSE IF calls[n].context.message.text = "do task" THEN 1
                     ELSE 0

(* A returned "do task" execute and a returned cancel, one final each.     *)
C9_Witness ==
    /\ Len(calls) = 2
    /\ \A n \in CallIds : Returned(n)
    /\ \E n \in CallIds : IsExecuteOf(n, "do task")
    /\ \E n \in CallIds : calls[n].op = "cancel"
    /\ \A n \in CallIds : Cardinality(Finals(EventsOf(n))) = 1

(* ------------------------------- C10 ----------------------------------- *)

(* C10: every Task and every status update in the sink carries the task_id *)
(* and context_id of the request context of the invocation that enqueued   *)
(* it (for an execute these are also the ids of the inbound message), the  *)
(* message nested in a status update carries the same two ids as the       *)
(* update, and so the update of a cancel carries the task id of the Task   *)
(* of every execute that was invoked with the same task id.                *)
C10_IdsMatchRequest ==
    /\ \A k \in SinkIdx :
        LET e == sink[k]
            c == calls[emitter[k]].context
        IN  /\ IsTask(e) =>
                 /\ e.id = c.task_id /\ e.context_id = c.context_id
                 /\ e.id = c.message.task_id
                 /\ e.context_id = c.message.context_id
            /\ IsUpdate(e) =>
                 /\ e.task_id = c.task_id /\ e.context_id = c.context_id
                 /\ e.status.message.task_id = e.task_id
                 /\ e.status.message.context_id = e.context_id
                 /\ calls[emitter[k]].op = "execute" =>
                      /\ e.task_id = c.message.task_id
                      /\ e.context_id = c.message.context_id
    /\ \A j \in SinkIdx, k \in SinkIdx :
        (/\ IsTask(sink[j])
         /\ calls[emitter[k]].op = "cancel"
         /\ calls[emitter[k]].context.task_id
                = calls[emitter[j]].context.task_id) =>
            sink[k].task_id = sink[j].id

(* A cancel has enqueued its update for the task of a cancelable execute.  *)
C10_Witness ==
    \E j \in SinkIdx, k \in SinkIdx :
        /\ j < k
        /\ IsTask(sink[j])
        /\ IsExecuteOf(emitter[j], "do cancelable task")
        /\ calls[emitter[k]].op = "cancel"
        /\ sink[k].task_id = sink[j].id
        /\ sink[k].context_id = sink[j].context_id

(* ------------------------------- C11 ----------------------------------- *)

(* What of an event is not an id or a timestamp. *)
Shape(e) ==
    CASE e.kind = "message" -> [kind |-> e.kind, text |-> e.text]
      [] e.kind = "task" ->
             [kind |-> e.kind, state |-> e.status.state,
              history |-> [j \in 1..Len(e.history) |-> e.history[j].text]]
      [] e.kind = "status-update" ->
             [kind |-> e.kind, state |-> e.status.state, final |-> e.final,
              text |-> e.status.message.text]

ShapesOf(n) == [j \in 1..Len(EventsOf(n)) |-> Shape(EventsOf(n)[j])]

UpdateShape(state, final, text) ==
    [kind |-> "status-update", state |-> state, final |-> final,
     text |-> text]

TaskShape(text) ==
    [kind |-> "task", state |-> "submitted", history |-> <<text>>]

ShapeOfInput(text) ==
    CASE text = "hello world" ->
             << [kind |-> "message", text |-> "Hello World"] >>
      [] text = "do task" ->
             << TaskShape(text),
                UpdateShape("working", FALSE, "Working on task"),
                UpdateShape("completed", TRUE, "Task completed") >>
      [] text = "do cancelable task" -> << TaskShape(text) >>
      [] text = "do long-running task" ->
             << TaskShape(text),
                UpdateShape("working", FALSE, "Still working 0"),
                UpdateShape("working", FALSE, "Still working 1"),
                UpdateShape("working", FALSE, "Still working 2"),
                UpdateShape("working", FALSE, "Still working 3") >>
      [] OTHER ->
             << [kind |-> "message",
                 text |-> "Sorry, I don't understand you"] >>

(* C11: two execute invocations with the same user input have enqueued,    *)
(* position by position, events of the same kind, state, final flag and    *)
(* text (one a prefix of the other while they run, the same sequence once  *)
(* both have returned), whatever their ids and timestamps; and the         *)
(* sequence of a returned execute is the one its input alone determines,   *)
(* whatever was invoked before it.                                         *)
C11_SameShape ==
    /\ \A n1 \in CallIds, n2 \in CallIds :
        (/\ calls[n1].op = "execute" /\ calls[n2].op = "execute"
         /\ calls[n1].context.message.text = calls[n2].context.message.text)
        => /\ IsPrefix(ShapesOf(n1), ShapesOf(n2))
              \/ IsPrefix(ShapesOf(n2), ShapesOf(n1))
           /\ (Returned(n1) /\ Returned(n2)) => ShapesOf(n1) = ShapesOf(n2)
    /\ \A n \in CallIds :
        (calls[n].op = "execute" /\ Returned(n)) =>
            ShapesOf(n) = ShapeOfInput(calls[n].context.message.text)

(* Two returned "do task" executes with different task ids, context ids    *)
(* and timestamps, the second enqueuing after the first had returned.      *)
C11_Witness ==
    /\ Len(calls) = 2
    /\ IsExecuteOf(1, "do task") /\ IsExecuteOf(2, "do task")
    /\ Returned(1) /\ Returned(2)
    /\ calls[1].context.task_id # calls[2].context.task_id
    /\ calls[1].context.context_id # calls[2].context.context_id
    /\ emitter = <<1, 1, 1, 2, 2, 2>>
    /\ sink[1].status.timestamp # sink[4].status.timestamp

(* ------------------------------- C12 ----------------------------------- *)

Raised(n) == calls[n].pc = "raised"

(* The full sequence of events invocation n is written to enqueue; the     *)
(* timestamp of its Task is read off the Task it enqueued.                 *)
ScriptOf(n) ==
    LET c == calls[n].context
        ev == EventsOf(n)
        ts == IF Len(ev) >= 1 /\ IsTask(ev[1])
              THEN ev[1].status.timestamp ELSE ""
    IN  IF calls[n].op = "cancel" THEN << CancelScript(c) >>
        ELSE CASE c.message.text = "hello world" ->
                    << [kind |-> "message", role |-> "agent",
                        text |-> "Hello World",
                        context_id |-> c.message.context_id,
                        task_id |-> c.message.task_id] >>
               [] c.message.text = "do task" -> DoTaskScript(c.message, ts)
               [] c.message.text = "do cancelable task" ->
                    << DoTaskScript(c.message, ts)[1] >>
               [] c.message.text = "do long-running task" ->
                    LongScript(c.message, ts)
               [] OTHER ->
                    << [kind |-> "message", role |-> "agent",
                        text |-> "Sorry, I don't understand you",
                        context_id |-> NoneId, task_id |-> NoneId] >>

C12_Step ==
    \A n \in CallIds :
        /\ (~Raised(n) /\ Raised(n)') =>
               /\ sink' = sink /\ emitter' = emitter
               /\ Len(EventsOf(n)) < Len(ScriptOf(n))
               /\ IsPrefix(EventsOf(n), ScriptOf(n))
        /\ Raised(n) =>
               /\ Raised(n)'
               /\ EventsOf(n)' = EventsOf(n)
               /\ IsPrefix(sink, sink') /\ IsPrefix(emitter, emitter')

(* C12: the step in which an enqueue of an invocation fails leaves the     *)
(* sink as it is (the events the invocation enqueued before, fewer than    *)
(* its script has and a prefix of it, stay; nothing is rolled back) and    *)
(* ends the invocation with the exception; from then on the invocation     *)
(* stays ended, enqueues nothing more (no retry, no later event), and no   *)
(* step of another invocation removes or changes what the sink holds.      *)
C12_SinkFailurePropagates == [][C12_Step]_vars

(* "do task" failed on its 2nd enqueue and "do long-running task" on its   *)
(* 5th; the one Task and the Task with three updates are in the sink.      *)
C12_Witness ==
    /\ Len(calls) = 2
    /\ IsExecuteOf(1, "do task") /\ Raised(1) /\ Len(EventsOf(1)) = 1
    /\ IsExecuteOf(2, "do long-running task") /\ Raised(2)
    /\ Len(EventsOf(2)) = 4

(* ------------------------------- C13 ----------------------------------- *)

(* Cancel c, for the task of the long-running execute n, enqueued its      *)
(* event after n's Task and before n's last update.                        *)
CanceledWhileRunning(n, c) ==
    /\ IsExecuteOf(n, "do long-running task")
    /\ calls[c].op = "cancel"
    /\ calls[c].context.task_id = calls[n].context.task_id
    /\ \E p \in SinkIdx :
        /\ emitter[p] = c
        /\ \E j \in 1..(p - 1) : emitter[j] = n
        /\ Cardinality({j \in 1..(p - 1) : emitter[j] = n}) < 5

(* C13: after a cancel for its task has enqueued the canceled event while  *)
(* a "do long-running task" execute was between its Task and its last      *)
(* update, the execute goes on: in a pause its wake-up is enabled, after a *)
(* pause the enqueue of its next "Still working i" update is enabled, and  *)
(* it does not return before it has enqueued all of them; once it has      *)
(* returned the sink holds, of the two invocations, the Task, the four     *)
(* updates and the one canceled event.                                     *)
C13_CancelDoesNotStopLongRunning ==
    \A n \in CallIds, c \in CallIds :
        CanceledWhileRunning(n, c) =>
            LET ev == EventsOf(n)
                script == LongScript(calls[n].context.message,
                                     ev[1].status.timestamp)
            IN  /\ calls[n].pc \in {"sleep", "enqueue", "done", "raised"}
                /\ calls[n].pc = "sleep" => ENABLED LongSleep(n)
                /\ calls[n].pc = "enqueue" =>
                     ENABLED (/\ LongEnqueueUpdate(n)
                              /\ sink' = Append(sink, script[Len(ev) + 1]))
                /\ Returned(n) =>
                     /\ ev = script
                     /\ EventsOf(c) = << CancelScript(calls[c].context) >>
                     /\ Len(calls) = 2 => Len(sink) = 6

(* The execute has returned with all five events, the canceled event       *)
(* lying between "Still working 1" and "Still working 2".                  *)
C13_Witness ==
    /\ Len(calls) = 2
    /\ CanceledWhileRunning(1, 2)
    /\ Returned(1) /\ Returned(2)
    /\ emitter = <<1, 1, 1, 2, 1, 1>>

(* ------------------------------- C14 ----------------------------------- *)

(* C14: in every state, whatever the interleaving, every sink entry was    *)
(* enqueued by one of the invocations, and the entries of each invocation, *)
(* in sink order, are a prefix of that invocation's script, the whole      *)
(* script once it has returned: nothing of it is lost, duplicated,         *)
(* reordered or altered by the other invocation.                           *)
C14_PerInvocationScript ==
    /\ Len(emitter) = Len(sink)
    /\ \A j \in SinkIdx : emitter[j] \in CallIds
    /\ \A n \in CallIds :
        /\ IsPrefix(EventsOf(n), ScriptOf(n))
        /\ Returned(n) => EventsOf(n) = ScriptOf(n)

(* A long-running execute and a "do task" execute for different requests   *)
(* have both returned, their enqueues having alternated.                   *)
C14_Witness ==
    /\ Len(calls) = 2
    /\ IsExecuteOf(1, "do long-running task") /\ IsExecuteOf(2, "do task")
    /\ calls[1].context.task_id # calls[2].context.task_id
    /\ calls[1].context.context_id # calls[2].context.context_id
    /\ Returned(1) /\ Returned(2)
    /\ emitter = <<1, 2, 1, 2, 1, 2, 1, 1>>

(* ------------------------------- C15 ----------------------------------- *)

EntriesOf(n) == {j \in SinkIdx : emitter[j] = n}

(* C15 as stated: the sink entries of a "do task" execute are contiguous:  *)
(* no entry of another invocation lies between two of them.                *)
C15_DoTaskContiguous ==
    \A n \in CallIds :
        IsExecuteOf(n, "do task") =>
            \A j \in EntriesOf(n), k \in EntriesOf(n) :
                \A p \in j..k : emitter[p] = n

(* C15 amended: a "do task" execute has no pause between its three events: *)
(* it is always at an enqueue, returned or failed, and every step it has   *)
(* taken enqueued the next event of its list, so its entries are in the    *)
(* sink in script order; each enqueue is an await at which the sink may    *)
(* suspend the invocation, so entries of another invocation may lie        *)
(* between them, and they are contiguous when no other invocation exists.  *)
C15_DoTaskNoPauseInOrder ==
    \A n \in CallIds :
        IsExecuteOf(n, "do task") =>
            /\ calls[n].pc \in {"enqueue", "done", "raised"}
            /\ calls[n].k = Len(EventsOf(n)) + 1
            /\ calls[n].pc = "done" <=> calls[n].k = 4
            /\ IsPrefix(EventsOf(n), ScriptOf(n))
            /\ Len(calls) = 1 => C15_DoTaskContiguous

(* The canceled event of a cancel lies between the Task and the working    *)
(* update of a returned "do task" execute.                                 *)
C15_Witness ==
    /\ Len(calls) = 2
    /\ IsExecuteOf(1, "do task") /\ Returned(1)
    /\ calls[2].op = "cancel"
    /\ emitter = <<1, 2, 1, 1>>

(* ------------------------------- C16 ----------------------------------- *)

Started(n) == n <= Len(calls)

LastEvent(n) == EventsOf(n)[Len(EventsOf(n))]

(* What holds of the enqueues and pauses of every invocation. *)
C16_Counts ==
    \A n \in CallIds :
        IF IsExecuteOf(n, "do long-running task")
        THEN /\ calls[n].slept <= 4 /\ Len(EventsOf(n)) <= 5
             /\ Returned(n) =>
                  /\ calls[n].slept = 4 /\ Len(EventsOf(n)) = 5
                  /\ IsUpdate(LastEvent(n))
                  /\ LastEvent(n).status.state = "working"
                  /\ ~LastEvent(n).final
        ELSE /\ calls[n].pc # "sleep"
             /\ Len(EventsOf(n)) <= 3
             /\ (IsExecuteOf(n, "do cancelable task") /\ Returned(n)) =>
                  /\ IsTask(LastEvent(n))
                  /\ LastEvent(n).status.state = "submitted"

(* C16: when the sink accepts every enqueue and every pause elapses, every *)
(* invocation that was started eventually returns; a "do long-running      *)
(* task" execute returns after exactly four pauses and five enqueues, any  *)
(* other invocation takes no pause and at most three enqueues; at return   *)
(* the last event of the cancelable path is the Task in state submitted    *)
(* and the last event of the long-running path is a working, final=false   *)
(* update.                                                                 *)
C16_EveryInvocationReturns ==
    /\ []C16_Counts
    /\ \A n \in 1..MaxCalls : Started(n) ~> (Started(n) /\ Returned(n))

(* A long-running execute and a cancelable execute have both returned.     *)
C16_Witness ==
    /\ Len(calls) = 2
    /\ IsExecuteOf(1, "do long-running task") /\ Returned(1)
    /\ calls[1].slept = 4 /\ Len(EventsOf(1)) = 5
    /\ IsExecuteOf(2, "do cancelable task") /\ Returned(2)

(* ------------------------------- C17 ----------------------------------- *)

C17_Step ==
    /\ IsPrefix(sink, sink') /\ IsPrefix(emitter, emitter')
    /\ Len(sink') <= Len(sink) + 1
    /\ \A j \in 1..Len(sink') :
        IsTask(sink'[j]) =>
            /\ sink'[j].status.state = "submitted"
            /\ sink'[j].history = << calls'[emitter'[j]].context.message >>
    /\ \A n \in CallIds :
        /\ calls'[n].context = calls[n].context
        /\ (calls[n].op = "execute" /\ calls[n].branch = "do_task") =>
               calls'[n].events = calls[n].events
        /\ (/\ calls[n].op = "execute"
            /\ calls[n].branch \in {"do_cancelable_task",
                                    "do_long_running_task"}) =>
               calls'[n].task = calls[n].task

(* C17: every step of execute and cancel leaves the entries the sink       *)
(* already holds as they are and appends at most one entry; so every Task  *)
(* in the sink, also after later status updates and cancels for its task,  *)
(* is in state submitted with a history of exactly the inbound message of  *)
(* the invocation that enqueued it; the Task and event list an invocation  *)
(* built and its request context are never changed either.                 *)
C17_TaskNeverMutated == [][C17_Step]_vars

(* The Task of a returned long-running execute is the first sink entry,    *)
(* followed by its four updates and the canceled event of a cancel for     *)
(* the same task.                                                          *)
C17_Witness ==
    /\ Len(calls) = 2
    /\ IsExecuteOf(1, "do long-running task") /\ Returned(1)
    /\ calls[2].op = "cancel" /\ Returned(2)
    /\ calls[2].context.task_id = calls[1].context.task_id
    /\ Len(sink) = 6
    /\ IsTask(sink[1]) /\ sink[1].status.state = "submitted"
    /\ emitter[6] = 2

====
